---- MODULE Spec2Model ----
(***************************************************************************)
(* Model of the multi-provider AI dispatcher of local-Notion: the          *)
(* credential resolver (environment variable, then config file), the       *)
(* persist operations that write the config files, the three text          *)
(* adapters (Gemini, Hugging Face, Ollama), the two dispatchers            *)
(* ai.CallAI and App.callAI, the six single-provider operations of         *)
(* Hugging Face and the editor's AI commands.  Go strings are TLA+         *)
(* strings.                                                                *)
(***************************************************************************)
EXTENDS Integers, Sequences, FiniteSets, TLC

VARIABLES
    home,       \* TRUE iff os.UserHomeDir() succeeds in this process
    env,        \* process environment: GEMINI_API_KEY, HUGGINGFACE_API_KEY
    cfgDir,     \* what ~/.apostrophe is: "absent", "dir" or "file"
    files,      \* ~/.apostrophe/gemini_key.txt and hf_key.txt
    lastPersist,\* per provider: the last Set...APIKey call and its outcome
    persists,   \* how many Set...APIKey calls were made
    resolved,   \* per provider: the last lone call of the resolver
    calls,      \* the dispatch calls (one goroutine each)
    op,         \* the single-provider operation in progress
    ui,         \* the editor: document, selection, AI command in progress
    db,         \* notes.db: the rows of table notes and the last call on it
    page        \* the page: the open note, its editor's save timer, the sidebar

vars == <<home, env, cfgDir, files, lastPersist, persists, resolved, calls, op, ui, db, page>>

----------------------------------------------------------------------------
(* Bounds *)

MaxCalls == 2       \* call frames; Spec runs its calls one after another in frame 1
MaxPersist == 1     \* Set...APIKey calls in a behaviour

----------------------------------------------------------------------------
(* Providers, in the dispatcher's priority order *)

Gemini == "gemini"
HF == "huggingface"
Ollama == "ollama"

Providers == {Gemini, HF, Ollama}
KeyedProviders == {Gemini, HF}

Priority == <<Gemini, HF, Ollama>>

Rank(p) == CHOOSE i \in 1..3 : Priority[i] = p

----------------------------------------------------------------------------
(* Strings *)

IsSpace(c) == c \in {" ", "\t", "\n", "\r"}

RECURSIVE TrimLeft(_)
TrimLeft(s) ==
    IF s = "" THEN ""
    ELSE IF IsSpace(SubSeq(s, 1, 1)) THEN TrimLeft(SubSeq(s, 2, Len(s)))
    ELSE s

RECURSIVE TrimRight(_)
TrimRight(s) ==
    IF s = "" THEN ""
    ELSE IF IsSpace(SubSeq(s, Len(s), Len(s))) THEN TrimRight(SubSeq(s, 1, Len(s) - 1))
    ELSE s

TrimSpace(s) == TrimRight(TrimLeft(s))

HasPrefix(s, p) == Len(s) >= Len(p) /\ SubSeq(s, 1, Len(p)) = p

\* The occurrences of sub in s
Contains(s, sub) ==
    \E i \in 1..(Len(s) - Len(sub) + 1) : SubSeq(s, i, i + Len(sub) - 1) = sub

----------------------------------------------------------------------------
(* The file system under ~/.apostrophe *)

\* The permission argument of os.WriteFile in Set...APIKey: 0600
KeyFilePerm == 384

OwnerCanRead(m) == (m \div 256) % 2 = 1
OwnerCanWrite(m) == (m \div 128) % 2 = 1
GroupOrOtherAccess(m) == m % 64 # 0

NoFile == [exists |-> FALSE, content |-> "", mode |-> 0]

File(c, m) == [exists |-> TRUE, content |-> c, mode |-> m]

\* os.ReadFile: (data, err); err # nil for a missing or unreadable file
ReadFile(f) ==
    IF f.exists /\ OwnerCanRead(f.mode)
    THEN [ok |-> TRUE, data |-> f.content]
    ELSE [ok |-> FALSE, data |-> ""]

\* os.MkdirAll(configDir, 0755): nil when the directory exists or was made,
\* an error when the path is a regular file
MkdirAll(d) ==
    IF d = "file" THEN [ok |-> FALSE, dir |-> d] ELSE [ok |-> TRUE, dir |-> "dir"]

\* os.WriteFile(path, data, perm): creates the file with perm when it does
\* not exist; otherwise truncates it and leaves its permissions alone
WriteFile(f, data, perm) ==
    IF ~f.exists THEN [ok |-> TRUE, file |-> File(data, perm)]
    ELSE IF OwnerCanWrite(f.mode) THEN [ok |-> TRUE, file |-> File(data, f.mode)]
    ELSE [ok |-> FALSE, file |-> f]

----------------------------------------------------------------------------
(* Credential resolver *)

\* Variant: the config file is consulted before the environment
ResolveKeyFileFirst(e, h, f) ==
    LET r == ReadFile(IF h THEN f ELSE NoFile)
    IN  IF r.ok /\ TrimSpace(r.data) # "" THEN TrimSpace(r.data) ELSE e

\* Variant: the file's content is returned without strings.TrimSpace
ResolveKeyNoTrim(e, h, f) ==
    IF e # "" THEN e
    ELSE LET r == ReadFile(IF h THEN f ELSE NoFile)
         IN  IF r.ok THEN r.data ELSE ""

\* GetGeminiAPIKey / GetHuggingFaceAPIKey (ai.go) and getGeminiAPIKey /
\* getHuggingFaceAPIKey (app.go): the same code for both providers, on the
\* environment e, the home flag h and the provider's file f.  Without a home
\* directory the path is relative and names no file of this model.
ResolveKey(e, h, f) ==
    IF e # "" THEN e
    ELSE LET r == ReadFile(IF h THEN f ELSE NoFile)
         IN  IF r.ok THEN TrimSpace(r.data) ELSE ""

GetAPIKey(p) == ResolveKey(env[p], home, files[p])

----------------------------------------------------------------------------
(* Go values *)

\* error: nil, or an error with a message
NilErr == [nil |-> TRUE, msg |-> ""]

Errorf(m) == [nil |-> FALSE, msg |-> m]

\* what the verb %v prints for an error
ErrV(e) == IF e.nil THEN "<nil>" ELSE e.msg

\* what the verb %d prints
Digit(d) == SubSeq("0123456789", d + 1, d + 1)

RECURSIVE Itoa(_)
Itoa(n) == IF n < 10 THEN Digit(n) ELSE Itoa(n \div 10) \o Digit(n % 10)

\* prompt[:min(100, len(prompt))]
First100(s) == SubSeq(s, 1, IF 100 < Len(s) THEN 100 ELSE Len(s))

\* (string, error)
Ret(t, e) == [text |-> t, err |-> e]

----------------------------------------------------------------------------
(* HTTP responses.  A response is a transport error, or a status and a     *)
(* body; a body is one of the JSON documents the three decoders tell       *)
(* apart, with the text it carries.                                        *)

Body(f, t) == [form |-> f, text |-> t, list |-> <<>>]

\* a body whose payload is a list
ListBody(f, l) == [form |-> f, text |-> "", list |-> l]

\* the bytes of a body, as string(body) renders them
Raw(b) ==
    CASE b.form = "garbage"    -> "<html>"
      [] b.form = "object"     -> "{}"
      [] b.form = "error"      -> "{\"error\":{\"message\":\"" \o b.text \o "\"}}"
      [] b.form = "candidates" -> "{\"candidates\":[{\"content\":{\"parts\":[{\"text\":\"" \o b.text \o "\"}]}}]}"
      [] b.form = "nocandidate"-> "{\"candidates\":[]}"
      [] b.form = "array"      -> "[]"
      [] b.form = "generated"  -> "[{\"generated_text\":\"" \o b.text \o "\"}]"
      [] b.form = "response"   -> "{\"response\":\"" \o b.text \o "\",\"done\":true}"

IsJSONObject(b) ==
    b.form \in {"object", "error", "candidates", "nocandidate", "response", "text", "labels"}
IsJSONArray(b) == b.form \in {"array", "generated", "summary", "vectors", "sentiment"}

\* an array json.Unmarshal decodes into a slice of structs
IsArrayOfObjects(b) == b.form \in {"array", "generated", "summary"}

TransportError(detail) == [neterr |-> detail, status |-> 0, body |-> Body("garbage", "")]

Response(st, b) == [neterr |-> "", status |-> st, body |-> b]

----------------------------------------------------------------------------
(* Provider adapters: what each returns for the response resp to its POST. *)
(* The request itself is issued by the dispatcher step that precedes it    *)
(* (see Post below); an adapter returns before any request when its key    *)
(* check fails.                                                            *)

\* json.Unmarshal(body, &geminiResp) and the reads of geminiResp
GeminiDecode(b) ==
    IF ~IsJSONObject(b) THEN Ret("", Errorf("parse error: invalid JSON"))
    ELSE IF b.form = "error" THEN Ret("", Errorf("API error: " \o b.text))
    ELSE IF b.form = "candidates" THEN Ret(b.text, NilErr)
    ELSE Ret("", Errorf("empty response"))

\* ai.CallGemini and App.callGemini from the POST on
GeminiClassify(resp) ==
    IF resp.neterr # "" THEN Ret("", Errorf("network error: " \o resp.neterr))
    ELSE IF resp.status = 429 THEN Ret("", Errorf("rate limited"))
    ELSE IF resp.status # 200 THEN Ret("", Errorf("API error: status " \o Itoa(resp.status)))
    ELSE GeminiDecode(resp.body)

CallGemini(prompt, apiKey, resp) ==
    IF apiKey = "" THEN Ret("", Errorf("no Gemini API key configured"))
    ELSE GeminiClassify(resp)

\* json.Unmarshal(body, &textResp) and the reads of textResp
HFDecode(b) ==
    IF ~IsArrayOfObjects(b) THEN Ret("", Errorf("parse error: invalid JSON"))
    ELSE IF b.form = "generated" /\ b.text # "" THEN Ret(b.text, NilErr)
    ELSE Ret("", Errorf("empty response from Hugging Face"))

\* ai.callHuggingFaceAPI and App.callHuggingFaceAPI from client.Do on
HFClassify(resp) ==
    IF resp.neterr # "" THEN Ret("", Errorf("network error: " \o resp.neterr))
    ELSE IF resp.status = 503 THEN Ret("", Errorf("model loading, try again"))
    ELSE IF resp.status = 429 THEN Ret("", Errorf("rate limited"))
    ELSE IF resp.status # 200
         THEN Ret("", Errorf("API error: status " \o Itoa(resp.status) \o " - " \o Raw(resp.body)))
    ELSE HFDecode(resp.body)

CallHuggingFaceText(prompt, apiKey, resp) ==
    IF apiKey = "" THEN Ret("", Errorf("no Hugging Face API key configured"))
    ELSE HFClassify(resp)

\* json.Unmarshal(body, &ollamaResp), its error dropped: ollamaResp.Response
OllamaDecode(b) == IF b.form = "response" THEN b.text ELSE ""

\* Variant: the response text is returned without the test for ""
CallOllamaNoEmptyTest(prompt, resp) ==
    IF resp.neterr # "" THEN Ret("", Errorf("Ollama connection error: " \o resp.neterr))
    ELSE Ret(OllamaDecode(resp.body), NilErr)

\* ai.CallOllama and App.callOllama from the POST on; the status is not read
CallOllama(prompt, resp) ==
    IF resp.neterr # "" THEN Ret("", Errorf("Ollama connection error: " \o resp.neterr))
    ELSE IF OllamaDecode(resp.body) = "" THEN Ret("", Errorf("no response from Ollama"))
    ELSE Ret(OllamaDecode(resp.body), NilErr)

----------------------------------------------------------------------------
(* The responses the providers give in this model *)

NetDetail == "connection refused"

GeminiResponses ==
    {TransportError(NetDetail)}
    \cup {Response(st, Body("garbage", "")) : st \in {429, 500}}
    \cup {Response(200, b) : b \in {Body("garbage", ""), Body("error", "quota"),
                                    Body("nocandidate", ""), Body("candidates", ""),
                                    Body("candidates", "gemini says hi")}}

HFResponses ==
    {TransportError(NetDetail)}
    \cup {Response(st, Body("error", "busy")) : st \in {429, 503, 500}}
    \cup {Response(200, b) : b \in {Body("garbage", ""), Body("error", "busy"),
                                    Body("array", ""), Body("generated", ""),
                                    Body("generated", "hf says hi")}}

OllamaResponses ==
    {TransportError(NetDetail)}
    \cup {Response(404, Body("error", "model not found"))}
    \cup {Response(200, b) : b \in {Body("garbage", ""), Body("response", ""),
                                    Body("response", "ollama says hi"),
                                    Body("response", "Error: ollama says no")}}

----------------------------------------------------------------------------
(* The dispatcher: ai.CallAI (impl "ai") and App.callAI (impl "app")       *)

CallIds == 1..MaxCalls

Impls == {"ai", "app"}

Prompts == {"hello"}

\* no response has come back
NoResponse == [neterr |-> "", status |-> 0, body |-> Body("garbage", "")]

NotInvoked == [invoked |-> FALSE, text |-> "", err |-> NilErr]

Returned(r) == [invoked |-> TRUE, text |-> r.text, err |-> r.err]

IdleCall ==
    [pc |-> "idle", impl |-> "ai", prompt |-> "",
     geminiKey |-> "", hfKey |-> "",
     absent |-> {},
     reads |-> [p \in KeyedProviders |-> 0],
     requests |-> <<>>,
     got |-> [p \in Providers |-> NoResponse],
     ret |-> [p \in Providers |-> NotInvoked],
     log |-> <<>>,
     result |-> ""]

\* The fixed endpoints
GeminiAPIEndpoint == "https://generativelanguage.googleapis.com/v1beta/models/gemini-2.0-flash:generateContent"
HuggingFaceAPIBase == "https://api-inference.huggingface.co/models/"
HFTextModel == "mistralai/Mistral-7B-Instruct-v0.3"
OllamaEndpoint == "http://localhost:11434/api/generate"

\* The POST an adapter issues
Request(p, prompt, key) ==
    CASE p = Gemini -> [to |-> p, url |-> GeminiAPIEndpoint \o "?key=" \o key,
                        auth |-> "", key |-> key, prompt |-> prompt]
      [] p = HF     -> [to |-> p, url |-> HuggingFaceAPIBase \o HFTextModel,
                        auth |-> "Bearer " \o key, key |-> key, prompt |-> prompt]
      [] p = Ollama -> [to |-> p, url |-> OllamaEndpoint,
                        auth |-> "", key |-> key, prompt |-> prompt]

\* Variant: the adapter sends the request again after the first attempt
PostWithRetry(requests, req) == requests \o <<req, req>>

\* resp, err := client.Do(req): the one POST of an adapter invocation,
\* added to the requests the call has issued
Post(requests, req) == Append(requests, req)

\* Variant: the request is sent without waiting for its response and the
\* dispatcher goes on to the next provider
AfterPostNoWait(p) ==
    CASE p = Gemini -> "hf" [] p = HF -> "ollama" [] p = Ollama -> "ollama_wait"

\* client.Post / client.Do block: the adapter waits for the response (or
\* the transport's error) of the request it sent
AfterPost(p) ==
    CASE p = Gemini -> "gemini_wait" [] p = HF -> "hf_wait" [] p = Ollama -> "ollama_wait"

\* Variant: the key check is missing
ConfiguredAlways(key) == TRUE

\* if geminiKey != "" / if hfKey != "" (CallAI); the negation of
\* if apiKey == "" (callGemini, callHuggingFaceText, callHuggingFaceAPI)
Configured(key) == key # ""

\* Variant: result == "" in place of result != ""
SucceededOnEmpty(r) == r.err.nil /\ r.text = ""

\* if err == nil && result != "" { return result }
Succeeded(r) == r.err.nil /\ r.text # ""

\* Variant: the error detail alone, without the marker
FailureResultNoMarker(e) == e.msg

\* Variant: the message of the two-provider dispatcher
FailureResultBoth(e) == "Error: Both AI providers failed. " \o e.msg

\* "Error: All AI providers failed. " + err.Error()
FailureResult(e) == "Error: All AI providers failed. " \o e.msg

\* Variant: err == nil in place of err != nil
OllamaResultInverted(r) ==
    IF r.err.nil THEN "Error: All AI providers failed. " \o ErrV(r.err) ELSE r.text

\* the last lines of CallAI / callAI, on what CallOllama returned
OllamaResult(r) == IF ~r.err.nil THEN FailureResult(r.err) ELSE r.text

\* Variant: the failure reason is not printed
GeminiFailedLogNoReason(e) == "Gemini failed, trying Hugging Face...\n"

\* the lines the dispatcher and the adapters print
GeminiFailedLog(e) == "Gemini failed (" \o ErrV(e) \o "), trying Hugging Face...\n"
HFFailedLog(e) == "Hugging Face failed (" \o ErrV(e) \o "), falling back to Ollama...\n"
CallingHFLog(prompt) == "Calling Hugging Face with prompt: " \o First100(prompt) \o "\n"
CallingOllamaLog(prompt) == "Calling Ollama with prompt: " \o First100(prompt) \o "\n"

\* Variant: a failure of Gemini falls straight through to Ollama
AfterFailureSkipsHF(p) == "ollama"

\* Variant: a failure of Hugging Face sends the dispatcher back to Gemini
AfterFailureRetriesGemini(p) == IF p = Gemini THEN "hf" ELSE "gemini"

\* where the dispatcher goes after a provider did not succeed
AfterFailure(p) == IF p = Gemini THEN "hf" ELSE "ollama"

\* Variant: the string to return is kept in a variable all calls share
SetSharedResult(c, rec) ==
    calls' = [d \in CallIds |->
                IF d = c THEN rec ELSE [calls[d] EXCEPT !.result = rec.result]]

\* a step of call c writes the locals of call c
Set(c, rec) == calls' = [calls EXCEPT ![c] = rec]

UnchangedStore == UNCHANGED <<home, env, cfgDir, files, lastPersist, persists, resolved, db, page>>

UnchangedWorld == UnchangedStore /\ UNCHANGED <<op, ui>>

\* A call begins.  CallAI resolves both keys first (ai.go:66-67);
\* callAI resolves none here.
Begin(c, impl, prompt) ==
    /\ calls[c].pc = "idle"
    /\ Set(c, [IdleCall EXCEPT
                    !.pc = "gemini", !.impl = impl, !.prompt = prompt,
                    !.geminiKey = IF impl = "ai" THEN GetAPIKey(Gemini) ELSE "",
                    !.hfKey = IF impl = "ai" THEN GetAPIKey(HF) ELSE "",
                    !.reads = [p \in KeyedProviders |-> IF impl = "ai" THEN 1 ELSE 0]])

StartWith(c, impl, prompt) == Begin(c, impl, prompt) /\ UnchangedWorld

Start(c) == \E impl \in Impls, prompt \in Prompts : StartWith(c, impl, prompt)

\* "Try Gemini first", up to the POST.
\* CallAI: if geminiKey != "" { CallGemini(prompt, geminiKey) }.
\* callAI: a.callGemini(prompt), which resolves the key itself and returns
\* an error without it.
TryGemini(c) ==
    LET me == calls[c] IN
    /\ me.pc = "gemini"
    /\ IF me.impl = "ai"
       THEN IF Configured(me.geminiKey)
            THEN Set(c, [me EXCEPT !.pc = AfterPost(Gemini),
                            !.requests = Post(@, Request(Gemini, me.prompt, me.geminiKey))])
            ELSE Set(c, [me EXCEPT !.pc = AfterFailure(Gemini),
                            !.absent = @ \cup {Gemini}])
       ELSE LET apiKey == GetAPIKey(Gemini) IN
            IF Configured(apiKey)
            THEN Set(c, [me EXCEPT !.pc = AfterPost(Gemini), !.geminiKey = apiKey,
                            !.reads[Gemini] = @ + 1,
                            !.requests = Post(@, Request(Gemini, me.prompt, apiKey))])
            ELSE LET r == CallGemini(me.prompt, apiKey, TransportError("")) IN
                 Set(c, [me EXCEPT !.pc = AfterFailure(Gemini),
                            !.reads[Gemini] = @ + 1,
                            !.absent = @ \cup {Gemini},
                            !.ret[Gemini] = Returned(r),
                            !.log = Append(@, GeminiFailedLog(r.err))])
    /\ UnchangedWorld

\* Gemini's response (or the transport's error) arrives; the adapter returns
\* and the dispatcher returns the text or goes on.
RecvGemini(c) ==
    LET me == calls[c] IN
    /\ me.pc = "gemini_wait"
    /\ \E resp \in GeminiResponses :
          LET r == CallGemini(me.prompt, me.geminiKey, resp) IN
          IF Succeeded(r)
          THEN Set(c, [me EXCEPT !.pc = "done", !.ret[Gemini] = Returned(r),
                          !.got[Gemini] = resp,
                          !.result = r.text])
          ELSE Set(c, [me EXCEPT !.pc = AfterFailure(Gemini), !.ret[Gemini] = Returned(r),
                          !.got[Gemini] = resp,
                          !.log = Append(@, GeminiFailedLog(r.err))])
    /\ UnchangedWorld

\* "Try Hugging Face second", up to the POST (CallAI) or up to the call of
\* callHuggingFaceAPI (callAI).
\* CallAI: if hfKey != "" { CallHuggingFaceText(prompt, hfKey) }.
\* callAI: a.callHuggingFaceText(prompt), which resolves the key itself.
TryHF(c) ==
    LET me == calls[c] IN
    /\ me.pc = "hf"
    /\ IF me.impl = "ai"
       THEN IF Configured(me.hfKey)
            THEN Set(c, [me EXCEPT !.pc = AfterPost(HF),
                            !.log = Append(@, CallingHFLog(me.prompt)),
                            !.requests = Post(@, Request(HF, me.prompt, me.hfKey))])
            ELSE Set(c, [me EXCEPT !.pc = AfterFailure(HF),
                            !.absent = @ \cup {HF}])
       ELSE LET apiKey == GetAPIKey(HF) IN
            IF Configured(apiKey)
            THEN Set(c, [me EXCEPT !.pc = "hf_api", !.hfKey = apiKey,
                            !.reads[HF] = @ + 1,
                            !.log = Append(@, CallingHFLog(me.prompt))])
            ELSE LET r == CallHuggingFaceText(me.prompt, apiKey, TransportError("")) IN
                 Set(c, [me EXCEPT !.pc = AfterFailure(HF),
                            !.reads[HF] = @ + 1,
                            !.absent = @ \cup {HF},
                            !.ret[HF] = Returned(r),
                            !.log = Append(@, HFFailedLog(r.err))])
    /\ UnchangedWorld

\* Variant: App.callHuggingFaceAPI finds no key whatever is configured
HFResolveAgainFindsNone(c) ==
    LET me == calls[c]
        r == CallHuggingFaceText(me.prompt, "", TransportError("")) IN
    /\ me.pc = "hf_api"
    /\ Set(c, [me EXCEPT !.pc = AfterFailure(HF), !.hfKey = "",
                   !.reads[HF] = @ + 1,
                   !.absent = @ \cup {HF},
                   !.ret[HF] = Returned(r),
                   !.log = Append(@, HFFailedLog(r.err))])
    /\ UnchangedWorld

\* App.callHuggingFaceAPI up to client.Do: it resolves the key once more
\* (app.go:317) and returns an error without it.
HFResolveAgain(c) ==
    LET me == calls[c]
        apiKey == GetAPIKey(HF) IN
    /\ me.pc = "hf_api"
    /\ IF Configured(apiKey)
       THEN Set(c, [me EXCEPT !.pc = AfterPost(HF), !.hfKey = apiKey,
                       !.reads[HF] = @ + 1,
                       !.requests = Post(@, Request(HF, me.prompt, apiKey))])
       ELSE LET r == CallHuggingFaceText(me.prompt, apiKey, TransportError("")) IN
            Set(c, [me EXCEPT !.pc = AfterFailure(HF), !.hfKey = apiKey,
                       !.reads[HF] = @ + 1,
                       !.absent = @ \cup {HF},
                       !.ret[HF] = Returned(r),
                       !.log = Append(@, HFFailedLog(r.err))])
    /\ UnchangedWorld

RecvHF(c) ==
    LET me == calls[c] IN
    /\ me.pc = "hf_wait"
    /\ \E resp \in HFResponses :
          LET r == CallHuggingFaceText(me.prompt, me.hfKey, resp) IN
          IF Succeeded(r)
          THEN Set(c, [me EXCEPT !.pc = "done", !.ret[HF] = Returned(r),
                          !.got[HF] = resp,
                          !.result = r.text])
          ELSE Set(c, [me EXCEPT !.pc = AfterFailure(HF), !.ret[HF] = Returned(r),
                          !.got[HF] = resp,
                          !.log = Append(@, HFFailedLog(r.err))])
    /\ UnchangedWorld

\* "Fallback to Ollama", up to the POST
TryOllama(c) ==
    LET me == calls[c] IN
    /\ me.pc = "ollama"
    /\ Set(c, [me EXCEPT !.pc = AfterPost(Ollama),
                  !.log = Append(@, CallingOllamaLog(me.prompt)),
                  !.requests = Post(@, Request(Ollama, me.prompt, ""))])
    /\ UnchangedWorld

\* Ollama's response arrives; the dispatcher returns
RecvOllama(c) ==
    LET me == calls[c] IN
    /\ me.pc = "ollama_wait"
    /\ \E resp \in OllamaResponses :
          LET r == CallOllama(me.prompt, resp) IN
          Set(c, [me EXCEPT !.pc = "done", !.ret[Ollama] = Returned(r),
                     !.got[Ollama] = resp,
                     !.result = OllamaResult(r)])
    /\ UnchangedWorld

\* The returned string is handed to the caller and the call's frame is gone
Deliver(c) ==
    /\ calls[c].pc = "done"
    /\ Set(c, IdleCall)
    /\ UnchangedWorld

----------------------------------------------------------------------------
(* The single-provider operations of Hugging Face: GenerateCoverImage,     *)
(* TranscribeAudio, GetEmbeddings, SummarizeText, ClassifyText and         *)
(* AnalyzeSentiment, of package ai (impl "ai", the key is an argument) and *)
(* of App (impl "app", the key is resolved first).                         *)

MaxTexts == 2       \* strings in one GetEmbeddings batch

OpNames ==
    {"GenerateCoverImage", "TranscribeAudio", "GetEmbeddings",
     "SummarizeText", "ClassifyText", "AnalyzeSentiment"}

HFImageModel == "black-forest-labs/FLUX.1-dev"
HFWhisperModel == "openai/whisper-large-v3-turbo"
HFEmbeddingModel == "sentence-transformers/all-MiniLM-L6-v2"
HFSummarizationModel == "facebook/bart-large-cnn"
HFSentimentModel == "cardiffnlp/twitter-roberta-base-sentiment-latest"
HFZeroShotModel == "facebook/bart-large-mnli"

\* the model an operation posts to
OpModel(name) ==
    CASE name = "GenerateCoverImage" -> HFImageModel
      [] name = "TranscribeAudio"    -> HFWhisperModel
      [] name = "GetEmbeddings"      -> HFEmbeddingModel
      [] name = "SummarizeText"      -> HFSummarizationModel
      [] name = "ClassifyText"       -> HFZeroShotModel
      [] name = "AnalyzeSentiment"   -> HFSentimentModel

\* the word an operation's "... API error: %d - %s" begins with
OpLabel(name) ==
    CASE name = "GenerateCoverImage" -> "image"
      [] name = "TranscribeAudio"    -> "whisper"
      [] name = "GetEmbeddings"      -> "embedding"
      [] name = "SummarizeText"      -> "summarize"
      [] name = "ClassifyText"       -> "classify"
      [] name = "AnalyzeSentiment"   -> "sentiment"

\* what an operation returns: a string (path, transcript, summary,
\* sentiment) or a list (vectors, labels), and an error
OpRet(t, l, e) == [text |-> t, list |-> l, err |-> e]

IdleOp ==
    [pc |-> "idle", name |-> "GenerateCoverImage", impl |-> "ai",
     apiKey |-> "", arg |-> "", texts |-> <<>>,
     requests |-> <<>>, got |-> NoResponse, wrote |-> FALSE,
     ret |-> OpRet("", <<>>, NilErr)]

\* strings.Index(s, ch): the first position of ch in s, 0 for Go's -1
IndexOf(s, ch) ==
    IF \E i \in 1..Len(s) : SubSeq(s, i, i) = ch
    THEN CHOOSE i \in 1..Len(s) :
            /\ SubSeq(s, i, i) = ch
            /\ \A j \in 1..(i - 1) : SubSeq(s, j, j) # ch
    ELSE 0

\* if idx := strings.Index(audioBase64, ","); idx != -1 { audioBase64 = audioBase64[idx+1:] }
StripDataURL(s) ==
    IF IndexOf(s, ",") # 0 THEN SubSeq(s, IndexOf(s, ",") + 1, Len(s)) ELSE s

Base64Alphabet == "ABCDEFGHIJKLMNOPQRSTUVWXYZabcdefghijklmnopqrstuvwxyz0123456789+/"

\* base64.StdEncoding.DecodeString(s) returns no error
IsBase64(s) ==
    /\ Len(s) % 4 = 0
    /\ \A i \in 1..Len(s) :
          \/ Contains(Base64Alphabet, SubSeq(s, i, i))
          \/ SubSeq(s, i, i) = "=" /\ i >= Len(s) - 1
                /\ \A j \in i..Len(s) : SubSeq(s, j, j) = "="

\* the note whose cover is generated
NoteId == "note-1"

\* "file:///" + filepath.ToSlash(filepath.Join(homeDir, "notes-images", noteId, "cover.png"))
CoverPath(h, noteId) ==
    "file:///" \o (IF h THEN "/home/user/" ELSE "") \o "notes-images/" \o noteId \o "/cover.png"

\* The POST of an operation
OpRequest(o) ==
    [to |-> HF, url |-> HuggingFaceAPIBase \o OpModel(o.name),
     auth |-> "Bearer " \o o.apiKey, key |-> o.apiKey,
     prompt |-> IF o.name = "TranscribeAudio" THEN StripDataURL(o.arg) ELSE o.arg,
     inputs |-> o.texts]

\* Variant: the key check is missing
OpKeyMissingNever(apiKey) == FALSE

\* if apiKey == "" { return ..., fmt.Errorf("no Hugging Face API key configured") }
OpKeyMissing(apiKey) == apiKey = ""

\* the vector the embedding model gives a string
Embedding(t) == <<Len(t), Len(t) * Len(t)>>

\* The bodies Hugging Face answers an operation's request with at status
\* 200: the payload of the operation's model for the request's input
OpPayloads(o) ==
    CASE o.name = "GenerateCoverImage" -> {Body("image", "PNG"), Body("image", "")}
      [] o.name = "TranscribeAudio"    -> {Body("text", "spoken words"), Body("text", "")}
      [] o.name = "GetEmbeddings"      ->
            {ListBody("vectors", [i \in 1..Len(o.texts) |-> Embedding(o.texts[i])])}
      [] o.name = "SummarizeText"      ->
            {Body("summary", "short"), Body("summary", ""), Body("array", "")}
      [] o.name = "ClassifyText"       -> {ListBody("labels", <<"work", "home">>)}
      [] o.name = "AnalyzeSentiment"   -> {Body("sentiment", "positive"), Body("array", "")}

OpResponses(o) ==
    {TransportError(NetDetail)}
    \cup {Response(st, Body("error", "busy")) : st \in {429, 503, 500}}
    \cup {Response(200, b) : b \in {Body("garbage", ""), Body("object", "")}}
    \cup {Response(200, b) : b \in OpPayloads(o)}

\* what json.Unmarshal reports for a body of another structure
UnmarshalError == Errorf("json: cannot unmarshal")

\* os.WriteFile(filePath, imageData, 0644) and the return of the path
CoverImageSave(h, noteId, writeOk) ==
    IF writeOk THEN OpRet(CoverPath(h, noteId), <<>>, NilErr)
    ELSE OpRet("", <<>>, Errorf("open cover.png: permission denied"))

\* json.Unmarshal(body, &result), its error dropped; return result.Text, nil
TranscribeDecode(b) == OpRet(IF b.form = "text" THEN b.text ELSE "", <<>>, NilErr)

\* Variant: the vectors come back in the opposite order
EmbeddingsDecodeReversed(b) ==
    IF b.form \notin {"array", "vectors"}
    THEN OpRet("", <<>>, Errorf("parse error: invalid JSON"))
    ELSE IF b.form = "array" THEN OpRet("", <<>>, NilErr)
    ELSE OpRet("", [i \in 1..Len(b.list) |-> b.list[Len(b.list) + 1 - i]], NilErr)

\* var embeddings [][]float32; json.Unmarshal(body, &embeddings); return embeddings, nil
EmbeddingsDecode(b) ==
    IF b.form \notin {"array", "vectors"}
    THEN OpRet("", <<>>, Errorf("parse error: invalid JSON"))
    ELSE IF b.form = "array" THEN OpRet("", <<>>, NilErr)
    ELSE OpRet("", b.list, NilErr)

\* var result []struct{SummaryText}; return result[0].SummaryText when there is one
SummarizeDecode(b) ==
    IF ~IsArrayOfObjects(b) THEN OpRet("", <<>>, UnmarshalError)
    ELSE IF b.form = "array" THEN OpRet("", <<>>, Errorf("empty summary response"))
    ELSE OpRet(IF b.form = "summary" THEN b.text ELSE "", <<>>, NilErr)

\* var result HFZeroShotResponse; return its labels (and scores)
ClassifyDecode(b) ==
    IF ~IsJSONObject(b) THEN OpRet("", <<>>, UnmarshalError)
    ELSE OpRet("", IF b.form = "labels" THEN b.list ELSE <<>>, NilErr)

\* var results [][]HFSentimentResponse; return results[0][0] when there is one
SentimentDecode(b) ==
    IF b.form \notin {"array", "sentiment"} THEN OpRet("", <<>>, UnmarshalError)
    ELSE IF b.form = "array" THEN OpRet("", <<>>, Errorf("empty sentiment response"))
    ELSE OpRet(b.text, <<>>, NilErr)

\* An operation from client.Do on
OpOutcome(o, resp, writeOk) ==
    IF resp.neterr # "" THEN OpRet("", <<>>, Errorf("network error: " \o resp.neterr))
    ELSE IF resp.status # 200
         THEN OpRet("", <<>>, Errorf(OpLabel(o.name) \o " API error: "
                                      \o Itoa(resp.status) \o " - " \o Raw(resp.body)))
    ELSE CASE o.name = "GenerateCoverImage" -> CoverImageSave(home, NoteId, writeOk)
           [] o.name = "TranscribeAudio"    -> TranscribeDecode(resp.body)
           [] o.name = "GetEmbeddings"      -> EmbeddingsDecode(resp.body)
           [] o.name = "SummarizeText"      -> SummarizeDecode(resp.body)
           [] o.name = "ClassifyText"       -> ClassifyDecode(resp.body)
           [] o.name = "AnalyzeSentiment"   -> SentimentDecode(resp.body)

KeyArgs == {"", "hf-arg-key"}

AudioArgs == {"data:audio/wav;base64,QUJD", "QUJD", "not base64!"}

EmbedTexts == {"a", "bb"}

TextLists == UNION {[1..n -> EmbedTexts] : n \in 0..MaxTexts}

\* the arguments an operation is called with
OpArgs(name) ==
    IF name = "TranscribeAudio" THEN AudioArgs
    ELSE IF name = "GetEmbeddings" THEN {""}
    ELSE {"hello"}

OpTexts(name) == IF name = "GetEmbeddings" THEN TextLists ELSE {<<>>}

UnchangedByOp == UnchangedStore /\ UNCHANGED <<calls, ui>>

\* An operation is called and runs up to client.Do: the key check, the
\* decoding of the audio, the POST
OpStart(name, impl, apiKey, arg, texts) ==
    LET key == IF impl = "ai" THEN apiKey ELSE GetAPIKey(HF)
        o == [IdleOp EXCEPT !.name = name, !.impl = impl, !.apiKey = key,
                            !.arg = arg, !.texts = texts] IN
    /\ op.pc = "idle"
    /\ IF OpKeyMissing(key)
       THEN op' = [o EXCEPT !.pc = "done",
                      !.ret = OpRet("", <<>>, Errorf("no Hugging Face API key configured"))]
       ELSE IF name = "TranscribeAudio" /\ ~IsBase64(StripDataURL(arg))
       THEN op' = [o EXCEPT !.pc = "done",
                      !.ret = OpRet("", <<>>, Errorf("invalid audio data: illegal base64 data"))]
       ELSE op' = [o EXCEPT !.pc = "wait", !.requests = Post(@, OpRequest(o))]
    /\ UnchangedByOp

\* The response arrives and the operation returns
OpRecv ==
    /\ op.pc = "wait"
    /\ \E resp \in OpResponses(op), writeOk \in BOOLEAN :
          op' = [op EXCEPT !.pc = "done", !.got = resp,
                    !.ret = OpOutcome(op, resp, writeOk),
                    !.wrote = /\ op.name = "GenerateCoverImage"
                              /\ resp.neterr = "" /\ resp.status = 200 /\ writeOk]
    /\ UnchangedByOp

\* The caller has the result
OpReturn ==
    /\ op.pc = "done"
    /\ op' = IdleOp
    /\ UnchangedByOp

----------------------------------------------------------------------------
(* The editor's AI commands: processSelection, generateContent and         *)
(* magicFormat call App.ProcessContent / App.GenerateContent (App.callAI)  *)
(* and put the returned text into the document.                            *)

MaxCommands == 2    \* AI commands given in the editor

IdleEditor ==
    [doc |-> "A note", from |-> 1, to |-> 1,
     pending |-> "none", aiPrompt |-> "", commands |-> 0,
     cmd |-> "none", last |-> "",
     isProcessing |-> FALSE, second |-> "none"]

\* editor.state.doc.textBetween(from, to)
TextBetween(e) == SubSeq(e.doc, e.from, e.to - 1)

\* fmt.Sprintf("%s\n\nContent:\n%s", instruction, text)
ProcessPrompt(instruction, text) == instruction \o "\n\nContent:\n" \o text

MagicInstruction == "Format this text into a clean, structured document using Markdown. Use Headers, Bullet points, and Bold text where appropriate."

Instructions == {"Fix grammar"}

AiPrompts == {"write a haiku"}

\* marked.parse(markdownText) of one paragraph of text
Marked(markdownText) == "<p>" \o markdownText \o "</p>\n"

\* editor.commands.deleteSelection()
DeleteSelection(e) ==
    [e EXCEPT !.doc = SubSeq(e.doc, 1, e.from - 1) \o SubSeq(e.doc, e.to, Len(e.doc)),
              !.to = e.from]

\* editor.commands.insertContent(html): the selection is replaced by html
\* and the cursor is put behind it
InsertContent(e, html) ==
    [e EXCEPT !.doc = SubSeq(e.doc, 1, e.from - 1) \o html \o SubSeq(e.doc, e.to, Len(e.doc)),
              !.from = e.from + Len(html), !.to = e.from + Len(html)]

\* editor.commands.setContent("")
ClearContent(e) == [e EXCEPT !.doc = "", !.from = 1, !.to = 1]

\* Variant: the test for the error marker is missing
InsertableAnyText(result) == result # ""

\* if (result && !result.startsWith("Error"))
Insertable(result) == result # "" /\ ~HasPrefix(result, "Error")

\* What each command does with the string the call returned
ApplyResult(e, result) ==
    LET done == [e EXCEPT !.pending = "none", !.cmd = e.pending, !.last = result] IN
    CASE e.pending = "processSelection" ->
            IF Insertable(result)
            THEN InsertContent(DeleteSelection(done), Marked(result))
            ELSE done
      [] e.pending = "generateContent" ->
            [(IF Insertable(result) THEN InsertContent(done, Marked(result)) ELSE done)
                EXCEPT !.aiPrompt = ""]
      [] e.pending = "magicFormat" ->
            IF Insertable(result)
            THEN InsertContent(ClearContent(done), Marked(result))
            ELSE done

\* the selections the user makes: a cursor at the start, the whole text
Selections(doc) == {<<1, 1>>, <<1, Len(doc) + 1>>}

\* Variant: a command with no finally block
FinallyNothing(e) == e

\* finally { setIsProcessing(false) }
Finally(e) == [e EXCEPT !.isProcessing = FALSE]

\* The user moves the cursor or selects text
UISelect ==
    /\ ui.pending = "none"
    /\ \E s \in Selections(ui.doc) :
          /\ <<ui.from, ui.to>> # s
          /\ ui' = [ui EXCEPT !.from = s[1], !.to = s[2]]
    /\ UnchangedStore /\ UNCHANGED <<calls, op>>

\* A command starts the call of App it awaits
UICall(name, prompt, aiPrompt) ==
    /\ ui.pending = "none"
    /\ ui.commands < MaxCommands
    /\ Begin(1, "app", prompt)
    /\ ui' = [ui EXCEPT !.pending = name, !.aiPrompt = aiPrompt, !.commands = @ + 1,
                        !.isProcessing = TRUE]
    /\ UnchangedStore /\ UNCHANGED op

\* processSelection(instruction) up to await ProcessContent(text, instruction)
UIProcessSelection ==
    /\ TextBetween(ui) # ""
    /\ \E instruction \in Instructions :
          UICall("processSelection", ProcessPrompt(instruction, TextBetween(ui)), ui.aiPrompt)

\* generateContent() up to await GenerateContent(aiPrompt)
UIGenerateContent ==
    \E aiPrompt \in AiPrompts : UICall("generateContent", aiPrompt, aiPrompt)

\* magicFormat() up to await ProcessContent(fullText, ...)
UIMagicFormat ==
    UICall("magicFormat", ProcessPrompt(MagicInstruction, ui.doc), ui.aiPrompt)

\* The call returns its string and the command goes on after its await
UIResult ==
    /\ ui.pending # "none"
    /\ calls[1].pc = "done"
    /\ ui' = Finally(ApplyResult(ui, calls[1].result))
    /\ Set(1, IdleCall)
    /\ UnchangedStore /\ UNCHANGED op

\* The awaited call is rejected (the binding throws): catch logs the error
\* and the command ends through its finally block
UIThrown ==
    /\ ui.pending # "none"
    /\ ui' = Finally([ui EXCEPT !.pending = "none", !.cmd = ui.pending, !.last = ""])
    /\ Set(1, IdleCall)
    /\ UnchangedStore /\ UNCHANGED op

\* What App.callAI may return to a command given while another one is
\* awaiting its call; the call of that second command is not followed
\* through the dispatcher
SecondResults == {"gemini says hi", "Error: All AI providers failed. no response from Ollama"}

\* A command is given from the bubble menu (processSelection) or with
\* Enter in the prompt box (generateContent) while another one is pending:
\* neither is disabled by isProcessing, as the button of magicFormat is
UISecondCall ==
    /\ ui.pending # "none"
    /\ ui.second = "none"
    /\ ui.commands < MaxCommands
    /\ \E name \in {"processSelection", "generateContent"} :
          /\ name = "processSelection" => TextBetween(ui) # ""
          /\ name = "generateContent" => ui.aiPrompt # ""
          /\ ui' = [ui EXCEPT !.second = name, !.commands = @ + 1, !.isProcessing = TRUE]
    /\ UNCHANGED calls
    /\ UnchangedStore /\ UNCHANGED op

\* The second command's call returns a string or is rejected
UISecondResult ==
    /\ ui.second # "none"
    /\ \/ \E result \in SecondResults :
             LET e == ApplyResult([ui EXCEPT !.pending = ui.second], result) IN
             ui' = Finally([e EXCEPT !.pending = ui.pending, !.cmd = ui.cmd,
                                     !.last = ui.last, !.second = "none"])
       \/ ui' = Finally([ui EXCEPT !.second = "none"])
    /\ UNCHANGED calls
    /\ UnchangedStore /\ UNCHANGED op

----------------------------------------------------------------------------
(* persist: SetGeminiAPIKey / SetHuggingFaceAPIKey                          *)

PersistValues == {"new-key", " new-key\n", ""}

NeverPersisted == [done |-> FALSE, ok |-> FALSE, cred |-> ""]

\* The outcome of Set...APIKey(apiKey) for a provider whose file is f:
\* the error (ok = FALSE) or the new directory and file
SetAPIKey(h, d, f, apiKey) ==
    IF ~h THEN [ok |-> FALSE, dir |-> d, file |-> f]
    ELSE IF ~MkdirAll(d).ok THEN [ok |-> FALSE, dir |-> d, file |-> f]
    ELSE LET w == WriteFile(f, apiKey, KeyFilePerm)
         IN  [ok |-> w.ok, dir |-> MkdirAll(d).dir, file |-> w.file]

Persist(p, apiKey) ==
    LET o == SetAPIKey(home, cfgDir, files[p], apiKey) IN
    /\ persists < MaxPersist
    /\ persists' = persists + 1
    /\ cfgDir' = o.dir
    /\ files' = [files EXCEPT ![p] = o.file]
    /\ lastPersist' = [lastPersist EXCEPT ![p] = [done |-> TRUE, ok |-> o.ok, cred |-> apiKey]]
    /\ UNCHANGED <<home, env, resolved, calls, op, ui, db, page>>

----------------------------------------------------------------------------
(* A caller of the resolver: GetGeminiAPIKey() / GetHuggingFaceAPIKey()    *)
(* called on their own, as GetProviderStatus and GetAIProvider do.  The    *)
(* call is recorded with what it read.                                     *)

NeverResolved == [done |-> FALSE, env |-> "", home |-> FALSE, file |-> NoFile, key |-> ""]

Resolve(p) ==
    /\ resolved' = [resolved EXCEPT ![p] =
                      [done |-> TRUE, env |-> env[p], home |-> home,
                       file |-> files[p], key |-> GetAPIKey(p)]]
    /\ UNCHANGED <<home, env, cfgDir, files, lastPersist, persists, calls, op, ui, db, page>>

----------------------------------------------------------------------------
(* Note storage: table notes of notes.db, one row per note, and the        *)
(* methods of App that read and write it.  A table is the set of its rows. *)

MaxNoteOps == 4     \* calls on the note storage in a behaviour

NoteIds == {"1", "2"}

Titles == {"Untitled", "Plan"}

Contents == {"", "<p>x</p>"}

Icons == {"", "star"}

Backgrounds == {"", "paper.png"}

\* Note{}
ZeroNote ==
    [id |-> "", title |-> "", content |-> "", icon |-> "",
     background_image |-> "", is_favorite |-> 0, updated_at |-> 0]

\* The row INSERT INTO notes (id, title, content, updated_at) makes: the
\* other columns take their DEFAULT
InsertedRow(id, title, content, now) ==
    [id |-> id, title |-> title, content |-> content, icon |-> "",
     background_image |-> "", is_favorite |-> 0, updated_at |-> now]

\* WHERE id = ?
Where(t, id) == {r \in t : r.id = id}

\* An INSERT with no conflict clause on a table with no key
SaveNoteInsertOnly(t, id, title, content, now) ==
    t \cup {InsertedRow(id, title, content, now)}

\* An upsert that writes every column anew
SaveNoteReplaceRow(t, id, title, content, now) ==
    (t \ Where(t, id)) \cup {InsertedRow(id, title, content, now)}

\* SaveNote: INSERT ... ON CONFLICT(id) DO UPDATE SET title, content, updated_at
SaveNote(t, id, title, content, now) ==
    IF Where(t, id) = {}
    THEN t \cup {InsertedRow(id, title, content, now)}
    ELSE {IF r.id = id
          THEN [r EXCEPT !.title = title, !.content = content, !.updated_at = now]
          ELSE r : r \in t}

\* LoadNote: SELECT ... WHERE id = ?, Scan
LoadNote(t, id) ==
    IF Where(t, id) = {}
    THEN [note |-> ZeroNote, err |-> Errorf("sql: no rows in result set")]
    ELSE [note |-> CHOOSE r \in Where(t, id) : TRUE, err |-> NilErr]

\* SetNoteBackground: UPDATE notes SET background_image = ? WHERE id = ?
SetNoteBackground(t, id, backgroundImage) ==
    {IF r.id = id THEN [r EXCEPT !.background_image = backgroundImage] ELSE r : r \in t}

\* SetNoteIcon: UPDATE notes SET icon = ? WHERE id = ?
SetNoteIcon(t, id, icon) ==
    {IF r.id = id THEN [r EXCEPT !.icon = icon] ELSE r : r \in t}

\* NOT is_favorite of an INTEGER column
Not(i) == IF i = 0 THEN 1 ELSE 0

\* ToggleNoteFavorite: UPDATE notes SET is_favorite = NOT is_favorite WHERE id = ?
ToggleNoteFavorite(t, id) ==
    {IF r.id = id THEN [r EXCEPT !.is_favorite = Not(@)] ELSE r : r \in t}

\* DeleteNote: DELETE FROM notes WHERE id = ?
DeleteNote(t, id) == t \ Where(t, id)

\* A call of one of the methods: its name and arguments (value is the
\* icon or the background image)
NoteCall(name, id, title, content, value) ==
    [name |-> name, id |-> id, title |-> title, content |-> content, value |-> value]

NoCall == NoteCall("none", "", "", "", "")

\* A fresh notes.db after InitDB: the table is there and empty
EmptyDB ==
    [rows |-> {}, n |-> 0, last |-> NoCall, note |-> ZeroNote, err |-> NilErr]

\* The database after a call at time now: the rows db.Exec leaves and
\* what the method returns
Serve(d, call, now) ==
    LET t == d.rows
        rows == CASE call.name = "SaveNote" ->
                       SaveNote(t, call.id, call.title, call.content, now)
                  [] call.name = "SetNoteBackground" ->
                       SetNoteBackground(t, call.id, call.value)
                  [] call.name = "SetNoteIcon" -> SetNoteIcon(t, call.id, call.value)
                  [] call.name = "ToggleNoteFavorite" -> ToggleNoteFavorite(t, call.id)
                  [] call.name = "DeleteNote" -> DeleteNote(t, call.id)
                  [] OTHER -> t
        loaded == IF call.name = "LoadNote" THEN LoadNote(t, call.id)
                  ELSE [note |-> ZeroNote, err |-> NilErr]
    IN  [rows |-> rows, n |-> d.n + 1, last |-> call,
         note |-> loaded.note, err |-> loaded.err]

\* time.Now() of the next call: the clock has moved on since the last one
Now(d) == d.n + 1

NoteCalls ==
    {NoteCall("SaveNote", id, title, content, "") :
        id \in NoteIds, title \in Titles, content \in Contents}
    \cup {NoteCall("SetNoteBackground", id, "", "", v) : id \in NoteIds, v \in Backgrounds}
    \cup {NoteCall("SetNoteIcon", id, "", "", v) : id \in NoteIds, v \in Icons}
    \cup {NoteCall(name, id, "", "", "") :
            name \in {"ToggleNoteFavorite", "DeleteNote", "LoadNote"}, id \in NoteIds}

UnchangedByNotes ==
    UNCHANGED <<home, env, cfgDir, files, lastPersist, persists, resolved, calls, op, ui>>

\* A method of App is called from the frontend and returns
Call(call) ==
    /\ db.n < MaxNoteOps
    /\ db' = Serve(db, call, Now(db))
    /\ UNCHANGED page
    /\ UnchangedByNotes

SaveNoteCalled == \E c \in NoteCalls : c.name = "SaveNote" /\ Call(c)
LoadNoteCalled == \E c \in NoteCalls : c.name = "LoadNote" /\ Call(c)
SetNoteBackgroundCalled == \E c \in NoteCalls : c.name = "SetNoteBackground" /\ Call(c)
SetNoteIconCalled == \E c \in NoteCalls : c.name = "SetNoteIcon" /\ Call(c)
ToggleNoteFavoriteCalled == \E c \in NoteCalls : c.name = "ToggleNoteFavorite" /\ Call(c)
DeleteNoteCalled == \E c \in NoteCalls : c.name = "DeleteNote" /\ Call(c)

----------------------------------------------------------------------------
(* The page: Home, its Sidebar and the Editor of the open note             *)

MaxEdits == 3       \* edits that reach debouncedSave, over all editors

\* The arguments of saveCallback(id, t, c)
Args(id, t, c) == [id |-> id, title |-> t, content |-> c]

NoArgs == Args("", "", "")

\* A timeout of setTimeout: its handle h, the editor instance ed that set
\* it in its n-th edit, and the arguments its callback holds
Timeout(h, ed, n, args) == [h |-> h, ed |-> ed, n |-> n, args |-> args]

\* Home before a note is opened: no Editor is rendered
NoPage ==
    [currentNoteId |-> "", title |-> "", html |-> "", ready |-> FALSE,
     created |-> 0, timeoutRef |-> 0, handles |-> 0, timers |-> {},
     edits |-> <<>>, passed |-> <<>>, log |-> <<>>, deleted |-> {}]

\* The editor instance on the page: Editor has key={currentNoteId}, so
\* every note opened mounts a new one
Mounted(p) == Len(p.edits)

\* A debounce that sets the new timeout and leaves the pending one
DebounceNoClear(timers, ref, timeout) == timers \cup {timeout}

\* useDebouncedCallback: clearTimeout(timeoutRef.current), then setTimeout
Debounce(timers, ref, timeout) ==
    {x \in timers : x.h # ref} \cup {timeout}

\* debouncedSave(id, t, c) called in the editor on the page
DebouncedSave(p, args) ==
    LET ed == Mounted(p)
        h == p.handles + 1 IN
    [p EXCEPT !.timers = Debounce(@, p.timeoutRef, Timeout(h, ed, p.edits[ed] + 1, args)),
              !.timeoutRef = h,
              !.handles = h,
              !.edits[ed] = @ + 1,
              !.passed[ed] = args]

\* Home renders <Editor key={id} noteId={id} initialContent initialTitle>:
\* a new instance with its own timeoutRef; useEditor has no editor yet
Mount(p, id, title, content) ==
    [p EXCEPT !.currentNoteId = id, !.title = title, !.html = content,
              !.ready = FALSE, !.timeoutRef = 0,
              !.edits = Append(@, 0), !.passed = Append(@, NoArgs)]

\* handleNewNote: Date.now().toString() is an id no note had before; the
\* clock gives the ids of NoteIds one after the other
NewId(p) == Itoa(p.created + 1)

NewPage ==
    /\ NewId(page) \in NoteIds
    /\ db' = Serve(db, NoteCall("SaveNote", NewId(page), "Untitled", "", ""), Now(db))
    /\ page' = [Mount(page, NewId(page), "Untitled", "") EXCEPT !.created = @ + 1]
    /\ UnchangedByNotes

\* useEditor has created the editor
EditorReady ==
    /\ page.currentNoteId # ""
    /\ ~page.ready
    /\ page' = [page EXCEPT !.ready = TRUE]
    /\ UNCHANGED db
    /\ UnchangedByNotes

\* onUpdate: the user changes the document
EditContent ==
    /\ page.ready
    /\ page.handles < MaxEdits
    /\ \E c \in Contents :
          /\ c # page.html
          /\ page' = DebouncedSave([page EXCEPT !.html = c],
                                   Args(page.currentNoteId, page.title, c))
    /\ UNCHANGED db
    /\ UnchangedByNotes

\* handleTitleChange(newTitle)
EditTitle ==
    /\ page.currentNoteId # ""
    /\ page.handles < MaxEdits
    /\ \E t \in Titles :
          /\ t # page.title
          /\ page' = IF page.ready
                     THEN DebouncedSave([page EXCEPT !.title = t],
                                        Args(page.currentNoteId, t, page.html))
                     ELSE [page EXCEPT !.title = t]
    /\ UNCHANGED db
    /\ UnchangedByNotes

\* The delay is over and the timeout's callback runs: saveCallback(id, t, c)
TimerFires ==
    \E x \in page.timers :
       /\ IF x.args.id # ""
          THEN /\ db' = Serve(db, NoteCall("SaveNote", x.args.id, x.args.title,
                                           x.args.content, ""), Now(db))
               /\ page' = [page EXCEPT !.timers = @ \ {x},
                              !.log = Append(@, [ed |-> x.ed, n |-> x.n,
                                                 seen |-> page.edits[x.ed],
                                                 args |-> x.args])]
          ELSE /\ UNCHANGED db
               /\ page' = [page EXCEPT !.timers = @ \ {x}]
       /\ UnchangedByNotes

\* Sidebar.handleDeleteNote(noteId) of a listed note, confirmed; the user
\* deletes a note once
SidebarDelete ==
    /\ \E r \in db.rows :
          /\ r.id \notin page.deleted
          /\ db' = Serve(db, NoteCall("DeleteNote", r.id, "", "", ""), Now(db))
          /\ page' = [page EXCEPT !.deleted = @ \cup {r.id}]
    /\ UnchangedByNotes

----------------------------------------------------------------------------
(* Initial states and specifications *)

EnvValues == {"", "  ", "env-key"}

\* Key files a user may have before the program first writes one: none,
\* one written by hand (0644), a blank one, a read-only one (0400), an
\* unreadable one (0200)
InitFiles ==
    {NoFile, File("file-key\n", 420), File(" \n", 384),
     File("file-key", 256), File("file-key", 128)}

InitRest ==
    /\ lastPersist = [p \in KeyedProviders |-> NeverPersisted]
    /\ persists = 0
    /\ resolved = [p \in KeyedProviders |-> NeverResolved]
    /\ calls = [c \in CallIds |-> IdleCall]
    /\ op = IdleOp
    /\ ui = IdleEditor
    /\ db = EmptyDB
    /\ page = NoPage

\* The dispatcher's world: a home directory, each key set or not in the
\* environment, each key file there or not
Init ==
    /\ home = TRUE
    /\ env \in [KeyedProviders -> EnvValues]
    /\ cfgDir \in {"absent", "dir"}
    /\ files \in (IF cfgDir = "dir"
                  THEN [KeyedProviders -> {NoFile, File("file-key\n", 420)}]
                  ELSE {[p \in KeyedProviders |-> NoFile]})
    /\ InitRest

Step(c) ==
    \/ TryGemini(c)
    \/ RecvGemini(c)
    \/ TryHF(c)
    \/ HFResolveAgain(c)
    \/ RecvHF(c)
    \/ TryOllama(c)
    \/ RecvOllama(c)
    \/ Deliver(c)

\* One dispatch call at a time, with persists at any moment of it
Next ==
    \/ Start(1)
    \/ Step(1)
    \/ \E p \in KeyedProviders, apiKey \in PersistValues : Persist(p, apiKey)

Spec == Init /\ [][Next]_vars

\* Calls that go on, with persists of a key at any moment of them: a
\* call's goroutine is scheduled, and every request comes back, by
\* response or by the client's timeout
NextLive ==
    \/ Start(1)
    \/ Step(1)
    \/ \E p \in KeyedProviders : Persist(p, "new-key")

SpecLive == Init /\ [][NextLive]_vars /\ WF_vars(Step(1))

\* Two calls at once, one of each implementation, in a world where the
\* Gemini key is in the environment, the Hugging Face key is there or
\* nowhere, and may be persisted while the calls run
InitConc ==
    /\ home = TRUE
    /\ env \in {[p \in KeyedProviders |-> IF p = Gemini THEN "env-key" ELSE e] :
                  e \in {"", "env-key"}}
    /\ cfgDir = "absent"
    /\ files = [p \in KeyedProviders |-> NoFile]
    /\ InitRest

NextConc ==
    \/ StartWith(1, "ai", "hello")
    \/ StartWith(2, "app", "")
    \/ Step(1)
    \/ Step(2)
    \/ Persist(HF, "new-key")

SpecConc == InitConc /\ [][NextConc]_vars

\* The single-provider operations, one at a time, with persists
NextOps ==
    \/ \E name \in OpNames, impl \in Impls :
          \E apiKey \in (IF impl = "ai" THEN KeyArgs ELSE {""}),
             arg \in OpArgs(name), texts \in OpTexts(name) :
                OpStart(name, impl, apiKey, arg, texts)
    \/ OpRecv
    \/ OpReturn
    \/ \E p \in KeyedProviders, apiKey \in PersistValues : Persist(p, apiKey)

SpecOps == Init /\ [][NextOps]_vars

\* The editor and the calls of App.callAI its commands await
NextUI ==
    \/ UISelect
    \/ UIProcessSelection
    \/ UIGenerateContent
    \/ UIMagicFormat
    \/ TryGemini(1) \/ RecvGemini(1)
    \/ TryHF(1) \/ HFResolveAgain(1) \/ RecvHF(1)
    \/ TryOllama(1) \/ RecvOllama(1)
    \/ UIResult
    \/ UIThrown
    \/ UISecondCall
    \/ UISecondResult

SpecUI == InitConc /\ [][NextUI]_vars

\* The resolver's and persist's world: every environment and file system
InitCred ==
    /\ home \in BOOLEAN
    /\ env \in [KeyedProviders -> EnvValues]
    /\ cfgDir \in (IF home THEN {"absent", "dir", "file"} ELSE {"absent"})
    /\ files \in (IF cfgDir = "dir" THEN [KeyedProviders -> InitFiles]
                  ELSE {[p \in KeyedProviders |-> NoFile]})
    /\ InitRest

NextCred ==
    \/ \E p \in KeyedProviders : Resolve(p)
    \/ \E p \in KeyedProviders, apiKey \in PersistValues : Persist(p, apiKey)

SpecCred == InitCred /\ [][NextCred]_vars

\* ai.CallAI (frame 1) and then App.callAI (frame 2) on the same prompt,
\* with the credentials as they are (nothing is persisted meanwhile) and
\* with every provider answering the second call as it answered the first
SamePrompt == calls[1].pc = "done" /\ StartWith(2, "app", calls[1].prompt)

SameAnswer(p) == calls[1].got[p] # NoResponse => calls'[2].got[p] = calls[1].got[p]

RecvGeminiSame == RecvGemini(2) /\ SameAnswer(Gemini)

RecvHFSame == RecvHF(2) /\ SameAnswer(HF)

RecvOllamaSame == RecvOllama(2) /\ SameAnswer(Ollama)

NextEquiv ==
    \/ \E prompt \in Prompts \cup {""} : StartWith(1, "ai", prompt)
    \/ TryGemini(1) \/ RecvGemini(1)
    \/ TryHF(1) \/ RecvHF(1)
    \/ TryOllama(1) \/ RecvOllama(1)
    \/ SamePrompt
    \/ TryGemini(2) \/ RecvGeminiSame
    \/ TryHF(2) \/ HFResolveAgain(2) \/ RecvHFSame
    \/ TryOllama(2) \/ RecvOllamaSame

SpecEquiv == Init /\ [][NextEquiv]_vars

\* The note storage and the calls the frontend makes on it, in any order
NextNotes ==
    \/ SaveNoteCalled
    \/ LoadNoteCalled
    \/ SetNoteBackgroundCalled
    \/ SetNoteIconCalled
    \/ ToggleNoteFavoriteCalled
    \/ DeleteNoteCalled

\* One process with a fresh notes.db
InitNotes ==
    /\ home = TRUE
    /\ env = [p \in KeyedProviders |-> ""]
    /\ cfgDir = "absent"
    /\ files = [p \in KeyedProviders |-> NoFile]
    /\ InitRest

SpecNotes == InitNotes /\ [][NextNotes]_vars

\* The page: notes are made, opened, edited and deleted; a timeout that
\* was set and not cleared runs its callback when its delay is over
NextPage ==
    \/ NewPage
    \/ EditorReady
    \/ EditContent
    \/ EditTitle
    \/ TimerFires
    \/ SidebarDelete

SpecPage == InitNotes /\ [][NextPage]_vars /\ WF_vars(TimerFires)

----------------------------------------------------------------------------
(* Properties *)

\* ProviderResult of an adapter invocation, as the specification reads it
IsSuccess(x) == x.invoked /\ x.err.nil /\ x.text # ""
Failed(x) == x.invoked /\ ~x.err.nil
Unsuccessful(x) == x.invoked /\ ~IsSuccess(x)

NoSuccess(me) == \A p \in Providers : ~IsSuccess(me.ret[p])

RequestsTo(me, p) == {i \in DOMAIN me.requests : me.requests[i].to = p}

Logged(me, m) == \E i \in DOMAIN me.log : Contains(me.log[i], m)

ErrorMarker == "Error:"

\* the dispatcher is past provider p
Past(me, p) ==
    IF p = Gemini THEN me.pc \in {"hf", "hf_api", "hf_wait", "ollama", "ollama_wait", "done"}
    ELSE me.pc \in {"ollama", "ollama_wait", "done"}

\* C1: a call that returns after some provider succeeded with non-empty
\* text returns exactly the text of the first such provider in the order
\* Gemini, Hugging Face, Ollama; with no credentials and Ollama answering
\* it returns Ollama's text unchanged.
C1_FirstSuccessReturned ==
    \A c \in CallIds :
        LET me == calls[c] IN
        me.pc = "done" =>
            /\ \A p \in Providers :
                  (/\ IsSuccess(me.ret[p])
                   /\ \A q \in Providers : Rank(q) < Rank(p) => ~IsSuccess(me.ret[q]))
                  => me.result = me.ret[p].text
            /\ (me.absent = KeyedProviders /\ IsSuccess(me.ret[Ollama]))
                  => me.result = me.ret[Ollama].text

C1_Witness ==
    \E c \in CallIds :
        LET me == calls[c] IN
        /\ me.pc = "done"
        /\ Failed(me.ret[Gemini]) /\ RequestsTo(me, Gemini) # {}
        /\ IsSuccess(me.ret[HF])
        /\ me.result = "hf says hi"

\* C2: once a provider has succeeded with non-empty text the call has
\* returned, and no provider after it in the order was invoked or sent a
\* request.
C2_NoProviderAfterSuccess ==
    \A c \in CallIds :
        LET me == calls[c] IN
        \A p \in Providers :
            IsSuccess(me.ret[p]) =>
                /\ me.pc = "done"
                /\ \A q \in Providers :
                      Rank(q) > Rank(p) => ~me.ret[q].invoked /\ RequestsTo(me, q) = {}

C2_Witness ==
    \E c \in CallIds :
        LET me == calls[c] IN
        /\ me.pc = "done"
        /\ IsSuccess(me.ret[Gemini])
        /\ Len(me.requests) = 1
        /\ me.result = "gemini says hi"

\* C3: no provider gets a second request in a call and requests follow the
\* priority order; after Gemini's request failed the dispatcher comes to
\* Hugging Face (it is invoked, or skipped for want of a key) before
\* Ollama; and when Gemini's request failed, Hugging Face did not succeed
\* and Ollama answered, the call returns Ollama's text.
C3_FailureFallsThroughInOrder ==
    \A c \in CallIds :
        LET me == calls[c] IN
        /\ \A p \in Providers : Cardinality(RequestsTo(me, p)) <= 1
        /\ \A i, j \in DOMAIN me.requests :
              i < j => Rank(me.requests[i].to) < Rank(me.requests[j].to)
        /\ \A p \in Providers : Unsuccessful(me.ret[p]) /\ p # Ollama => Past(me, p)
        /\ (Unsuccessful(me.ret[Gemini]) /\ Past(me, HF))
              => (HF \in me.absent \/ me.ret[HF].invoked)
        /\ (/\ me.pc = "done"
            /\ Unsuccessful(me.ret[Gemini]) /\ RequestsTo(me, Gemini) # {}
            /\ ~IsSuccess(me.ret[HF])
            /\ IsSuccess(me.ret[Ollama]))
              => me.result = me.ret[Ollama].text

C3_Witness ==
    \E c \in CallIds :
        LET me == calls[c] IN
        /\ me.ret[Gemini].invoked /\ me.ret[Gemini].err.msg = "rate limited"
        /\ Len(me.requests) = 2
        /\ me.requests[1].to = Gemini /\ me.requests[2].to = HF

\* C4: a call that returns with no provider having succeeded returns a
\* string that starts with the marker "Error:".
C4_FailureIsMarked ==
    \A c \in CallIds :
        LET me == calls[c] IN
        (me.pc = "done" /\ NoSuccess(me)) => HasPrefix(me.result, ErrorMarker)

C4_Witness ==
    \E c \in CallIds :
        LET me == calls[c] IN
        /\ me.pc = "done"
        /\ me.absent = KeyedProviders
        /\ me.ret[Ollama].err.msg = "Ollama connection error: connection refused"
        /\ HasPrefix(me.result, ErrorMarker)

\* C5 as claimed: when no provider succeeds the returned string holds the
\* failure reason of every provider whose request failed.
C5_AllFailuresInResult ==
    \A c \in CallIds :
        LET me == calls[c] IN
        (me.pc = "done" /\ NoSuccess(me)) =>
            \A p \in Providers :
                (Failed(me.ret[p]) /\ RequestsTo(me, p) # {})
                => Contains(me.result, me.ret[p].err.msg)

\* C5 as amended: when no provider succeeds the returned string holds the
\* failure reason of the last provider, Ollama; the failure reasons of
\* Gemini and Hugging Face, when their requests failed, are printed to the
\* log.
C5_LastFailureReturnedOthersLogged ==
    \A c \in CallIds :
        LET me == calls[c] IN
        (me.pc = "done" /\ NoSuccess(me)) =>
            /\ Failed(me.ret[Ollama])
            /\ Contains(me.result, me.ret[Ollama].err.msg)
            /\ \A p \in KeyedProviders :
                  (Failed(me.ret[p]) /\ RequestsTo(me, p) # {})
                  => Logged(me, me.ret[p].err.msg)

C5_Witness ==
    \E c \in CallIds :
        LET me == calls[c] IN
        /\ me.pc = "done"
        /\ \A p \in Providers : Failed(me.ret[p]) /\ RequestsTo(me, p) # {}
        /\ me.ret[Gemini].err.msg = "rate limited"
        /\ ~Contains(me.result, "rate limited")
        /\ Logged(me, "rate limited")

\* C6: when no provider succeeds the returned string is exactly the fixed
\* text "Error: All AI providers failed. " followed by Ollama's error.
C6_FailureIsMarkerPlusOllamaError ==
    \A c \in CallIds :
        LET me == calls[c] IN
        (me.pc = "done" /\ NoSuccess(me)) =>
            me.result = "Error: All AI providers failed. " \o me.ret[Ollama].err.msg

C6_Witness ==
    \E c \in CallIds :
        LET me == calls[c] IN
        /\ me.pc = "done"
        /\ Len(me.requests) = 3
        /\ Failed(me.ret[Gemini]) /\ Failed(me.ret[HF])
        /\ me.result = "Error: All AI providers failed. no response from Ollama"

\* C7: a keyed provider whose credential resolved to the empty string gets
\* no request, every request to a keyed provider carries a non-empty key,
\* the dispatcher is past a provider it skipped, and a call that skipped
\* providers and got Ollama's answer returns that answer.
C7_AbsentCredentialSkipped ==
    \A c \in CallIds :
        LET me == calls[c] IN
        /\ me.absent \subseteq KeyedProviders
        /\ \A p \in me.absent : RequestsTo(me, p) = {} /\ Past(me, p)
        /\ \A i \in DOMAIN me.requests :
              me.requests[i].to \in KeyedProviders => me.requests[i].key # ""
        /\ (me.pc = "done" /\ me.absent # {} /\ IsSuccess(me.ret[Ollama]))
              => me.result = me.ret[Ollama].text

C7_Witness ==
    \E c \in CallIds :
        LET me == calls[c] IN
        /\ me.pc = "done"
        /\ me.absent = KeyedProviders
        /\ Len(me.requests) = 1 /\ me.requests[1].to = Ollama
        /\ me.result = "ollama says hi"

\* what the config file yields to a resolver call r
FileYield(r) ==
    IF r.home /\ r.file.exists /\ OwnerCanRead(r.file.mode)
    THEN TrimSpace(r.file.content) ELSE ""

\* C8: a resolver call that found a value in the environment variable and
\* a value in the config file returned the environment variable's value.
C8_EnvBeforeFile ==
    \A p \in KeyedProviders :
        LET r == resolved[p] IN
        (r.done /\ r.env # "" /\ FileYield(r) # "") => r.key = r.env

C8_Witness ==
    \E p \in KeyedProviders :
        LET r == resolved[p] IN
        /\ r.done
        /\ r.env = "env-key"
        /\ r.file = File("file-key\n", 420) /\ r.home
        /\ r.key = "env-key"

\* C9 as claimed: a resolver call returns the empty string when neither
\* the environment variable nor the config file yields a value that is
\* non-empty after trimming.
C9_AbsentWhenNothingAfterTrim ==
    \A p \in KeyedProviders :
        LET r == resolved[p] IN
        (r.done /\ TrimSpace(r.env) = "" /\ FileYield(r) = "") => r.key = ""

\* C9 as amended: a resolver call returns the empty string when the
\* environment variable is empty and the config file is missing,
\* unreadable or blank after trimming; a non-empty environment value is
\* returned untrimmed, a whitespace-only one included.
C9_AbsentWhenEnvEmptyAndFileBlank ==
    \A p \in KeyedProviders :
        LET r == resolved[p] IN
        r.done =>
            /\ (r.env = "" /\ FileYield(r) = "") => r.key = ""
            /\ (r.env # "" /\ TrimSpace(r.env) = "") => r.key = r.env

C9_Witness ==
    \E p \in KeyedProviders :
        LET r == resolved[p] IN
        /\ r.done
        /\ r.env = ""
        /\ r.home /\ r.file = File(" \n", 384)
        /\ r.key = ""

\* C10: after a successful persist the configuration directory exists and
\* the provider's file holds the credential, readable and writable by the
\* owner and by nobody else.
C10_PersistedOwnerOnly ==
    \A p \in KeyedProviders :
        lastPersist[p].ok =>
            /\ cfgDir = "dir"
            /\ files[p].exists
            /\ files[p].content = lastPersist[p].cred
            /\ OwnerCanRead(files[p].mode) /\ OwnerCanWrite(files[p].mode)
            /\ ~GroupOrOtherAccess(files[p].mode)

\* C11: within one dispatch call each provider's credential is read from
\* the environment/file at most once (and every call reads it anew).
\* Violated: App.callAI reads the Hugging Face credential in
\* callHuggingFaceText and once more in callHuggingFaceAPI.
C11_ReadAtMostOncePerCall ==
    \A c \in CallIds : \A p \in KeyedProviders : calls[c].reads[p] <= 1


\* the fixed endpoint of provider p
Endpoint(p) ==
    CASE p = Gemini -> GeminiAPIEndpoint
      [] p = HF     -> HuggingFaceAPIBase \o HFTextModel
      [] p = Ollama -> OllamaEndpoint

\* the dispatcher waits for provider p's response
Waiting(me, p) ==
    me.pc = (CASE p = Gemini -> "gemini_wait" [] p = HF -> "hf_wait" [] p = Ollama -> "ollama_wait")

\* C12: an adapter invocation issues exactly one POST, to its provider's
\* fixed endpoint, and never a second one, whatever the outcome: a call has
\* never more than one request to a provider, exactly one while it waits
\* for the provider and after the provider's adapter, holding a credential,
\* has returned.
C12_OnePostPerInvocation ==
    \A c \in CallIds : \A p \in Providers :
        LET me == calls[c]
            n == Cardinality(RequestsTo(me, p)) IN
        /\ n <= 1
        /\ Waiting(me, p) => n = 1
        /\ (me.ret[p].invoked /\ p \notin me.absent) => n = 1
        /\ \A i \in RequestsTo(me, p) : HasPrefix(me.requests[i].url, Endpoint(p))

C12_Witness ==
    \E c \in CallIds :
        LET me == calls[c] IN
        /\ me.pc = "done"
        /\ \A p \in Providers : Failed(me.ret[p]) /\ Cardinality(RequestsTo(me, p)) = 1
        /\ Len(me.requests) = 3

\* the requests of a call whose response has not come back
InFlight(me) == {i \in DOMAIN me.requests : ~me.ret[me.requests[i].to].invoked}

\* C13: the providers of a call are tried one after the other: at most one
\* request of the call is in flight at any time, and when a request to a
\* provider has been sent every provider before it in the order was either
\* skipped for want of a credential or has returned without success.
C13_OneAtATimeAfterFailure ==
    \A c \in CallIds :
        LET me == calls[c] IN
        /\ Cardinality(InFlight(me)) <= 1
        /\ \A i \in DOMAIN me.requests : \A q \in Providers :
              Rank(q) < Rank(me.requests[i].to)
                 => (q \in me.absent \/ Unsuccessful(me.ret[q]))
        /\ \A i, j \in DOMAIN me.requests :
              i < j => Rank(me.requests[i].to) < Rank(me.requests[j].to)

\* the Hugging Face request is in flight after Gemini's request failed
C13_Witness ==
    \E c \in CallIds :
        LET me == calls[c] IN
        /\ me.pc = "hf_wait"
        /\ Len(me.requests) = 2
        /\ Failed(me.ret[Gemini])
        /\ InFlight(me) = {2}

\* how far a call is on the dispatcher's line
Stage(pc) ==
    CASE pc = "idle" -> 0
      [] pc = "gemini" -> 1 [] pc = "gemini_wait" -> 2
      [] pc = "hf" -> 3 [] pc = "hf_api" -> 4 [] pc = "hf_wait" -> 5
      [] pc = "ollama" -> 6 [] pc = "ollama_wait" -> 7
      [] pc = "done" -> 8

\* the terminal state Return(success): the text of a provider that succeeded
ReturnedSuccess(me) ==
    \E p \in Providers :
        /\ IsSuccess(me.ret[p]) /\ me.result = me.ret[p].text
        /\ \A q \in Providers : Rank(q) > Rank(p) => ~me.ret[q].invoked

\* the terminal state ReturnCombinedFailure: the synthesized failure string
ReturnedCombinedFailure(me) ==
    /\ NoSuccess(me) /\ Failed(me.ret[Ollama])
    /\ me.result = FailureResult(me.ret[Ollama].err)

\* C14: the dispatcher is a line without a way back: every step of a call
\* moves it forward in the order Gemini, Hugging Face, Ollama, return (so
\* each provider is visited at most once); a call that has begun
\* eventually returns, every adapter invocation returning; and a call that
\* returns is in exactly one of Return(success), ReturnCombinedFailure.
C14_LinearAndTerminates ==
    /\ [][\A c \in CallIds :
             calls'[c].pc # calls[c].pc =>
                \/ Stage(calls'[c].pc) > Stage(calls[c].pc)
                \/ calls[c].pc = "done" /\ calls'[c] = IdleCall]_vars
    /\ [](\A c \in CallIds :
             calls[c].pc = "done" =>
                (ReturnedSuccess(calls[c]) # ReturnedCombinedFailure(calls[c])))
    /\ (calls[1].pc # "idle") ~> (calls[1].pc = "done")

\* a call of App that went down the whole line
C14_Witness ==
    LET me == calls[1] IN
    /\ me.pc = "done" /\ me.impl = "app"
    /\ Gemini \in me.absent
    /\ Failed(me.ret[HF]) /\ RequestsTo(me, HF) # {}
    /\ ReturnedCombinedFailure(me)

\* What CallAI / callAI return when run alone for a prompt, the keys they
\* resolve and the responses resp to the requests they send
Generate(prompt, geminiKey, hfKey, resp) ==
    LET g == CallGemini(prompt, geminiKey, resp[Gemini])
        h == CallHuggingFaceText(prompt, hfKey, resp[HF])
        o == CallOllama(prompt, resp[Ollama]) IN
    IF Configured(geminiKey) /\ Succeeded(g) THEN g.text
    ELSE IF Configured(hfKey) /\ Succeeded(h) THEN h.text
    ELSE OllamaResult(o)

\* C15: concurrent calls share no mutable state: under every interleaving
\* of two calls a step of one call leaves the other call's state alone,
\* every request of a call carries that call's prompt, and the string a
\* call returns is the one it returns when run alone on its own prompt,
\* the keys it resolved and the responses to its own requests.
C15_CallsIndependent ==
    /\ [](\A c \in CallIds :
             LET me == calls[c] IN
             /\ \A i \in DOMAIN me.requests : me.requests[i].prompt = me.prompt
             /\ me.pc = "done" =>
                   me.result = Generate(me.prompt, me.geminiKey, me.hfKey, me.got))
    /\ [][\A c \in CallIds :
             calls'[c] # calls[c] => \A d \in CallIds \ {c} : calls'[d] = calls[d]]_vars

\* both calls are about to return, each its own string
C15_Witness ==
    /\ calls[1].pc = "done" /\ calls[2].pc = "done"
    /\ calls[1].result = "gemini says hi"
    /\ calls[2].got[Gemini] # NoResponse
    /\ calls[2].result = "hf says hi"

\* The kind of result an adapter's return (text, err) is, read off the
\* error's message
KindOf(r) ==
    IF r.err.nil THEN "Success"
    ELSE IF HasPrefix(r.err.msg, "network error") \/ HasPrefix(r.err.msg, "Ollama connection error")
         THEN "NetworkFailure"
    ELSE IF HasPrefix(r.err.msg, "rate limited") THEN "RateLimited"
    ELSE IF HasPrefix(r.err.msg, "model loading") THEN "TransientUnavailable"
    ELSE IF HasPrefix(r.err.msg, "API error") THEN "ProviderError"
    ELSE IF HasPrefix(r.err.msg, "parse error") THEN "MalformedResponse"
    ELSE "EmptyResponse"

\* the body is a document of the structure provider p's adapter expects
Parses(p, b) == IF p = HF THEN IsArrayOfObjects(b) ELSE IsJSONObject(b)

\* the body holds the generated text in provider p's payload field
Usable(p, b) ==
    /\ b.text # ""
    /\ b.form = (CASE p = Gemini -> "candidates" [] p = HF -> "generated" [] p = Ollama -> "response")

\* the kind the classification of the specification gives a response
KindExpected(p, resp) ==
    IF resp.neterr # "" THEN "NetworkFailure"
    ELSE IF resp.status = 429 THEN "RateLimited"
    ELSE IF resp.status = 503 THEN "TransientUnavailable"
    ELSE IF resp.status \notin 200..299 THEN "ProviderError"
    ELSE IF ~Parses(p, resp.body) THEN "MalformedResponse"
    ELSE IF ~Usable(p, resp.body) THEN "EmptyResponse"
    ELSE "Success"

\* C16: every text adapter returns, for the response to its request, the
\* result kind of the classification (NetworkFailure, RateLimited for 429,
\* TransientUnavailable for 503, ProviderError with the body for another
\* non-2xx status, MalformedResponse, EmptyResponse), and Success only for
\* a successful status whose body parses and holds the text.
\* Violated: CallOllama never reads the status, CallGemini has no case for
\* 503, leaves the body out of its error and returns an empty text as
\* success.
C16_OutcomeClassified ==
    \A c \in CallIds : \A p \in Providers :
        LET me == calls[c] IN
        me.got[p] # NoResponse =>
            /\ KindOf(me.ret[p]) = KindExpected(p, me.got[p])
            /\ KindOf(me.ret[p]) = "ProviderError"
                  => Contains(me.ret[p].err.msg, Raw(me.got[p].body))

\* C17: the single-provider operations do not go through the dispatcher:
\* called without a Hugging Face credential an operation returns the
\* explicit error and no value, having sent no request; an operation sends
\* requests to Hugging Face only, one at most, and starts no dispatch call.
C17_NoKeyFailsOutright ==
    /\ (op.pc # "idle" /\ op.apiKey = "") =>
          /\ op.pc = "done"
          /\ op.requests = <<>>
          /\ ~op.ret.err.nil
          /\ op.ret.err.msg = "no Hugging Face API key configured"
          /\ op.ret.text = "" /\ op.ret.list = <<>>
          /\ ~op.wrote
    /\ Len(op.requests) <= 1
    /\ \A i \in DOMAIN op.requests :
          /\ op.requests[i].to = HF
          /\ op.requests[i].url = HuggingFaceAPIBase \o OpModel(op.name)
          /\ op.requests[i].url \notin {GeminiAPIEndpoint, OllamaEndpoint}
    /\ \A c \in CallIds : calls[c] = IdleCall

\* App.GetEmbeddings returned without a key to resolve
C17_Witness ==
    /\ op.pc = "done" /\ op.impl = "app" /\ op.name = "GetEmbeddings"
    /\ op.texts # <<>>
    /\ op.apiKey = ""
    /\ ~op.ret.err.nil

\* the body is of the structure the operation decodes
OpParses(name, b) ==
    CASE name = "GenerateCoverImage" -> TRUE
      [] name = "TranscribeAudio"    -> IsJSONObject(b)
      [] name = "GetEmbeddings"      -> b.form \in {"array", "vectors"}
      [] name = "SummarizeText"      -> IsArrayOfObjects(b)
      [] name = "ClassifyText"       -> IsJSONObject(b)
      [] name = "AnalyzeSentiment"   -> b.form \in {"array", "sentiment"}

\* the body holds the payload the operation returns
OpUsable(name, b) ==
    CASE name = "GenerateCoverImage" -> b.form = "image" /\ b.text # ""
      [] name = "TranscribeAudio"    -> b.form = "text" /\ b.text # ""
      [] name = "GetEmbeddings"      -> b.form = "vectors"
      [] name = "SummarizeText"      -> b.form = "summary" /\ b.text # ""
      [] name = "ClassifyText"       -> b.form = "labels" /\ b.list # <<>>
      [] name = "AnalyzeSentiment"   -> b.form = "sentiment"

\* the kind the classification of the specification gives a response to
\* an operation's request
OpKindExpected(name, resp) ==
    IF resp.neterr # "" THEN "NetworkFailure"
    ELSE IF resp.status = 429 THEN "RateLimited"
    ELSE IF resp.status = 503 THEN "TransientUnavailable"
    ELSE IF resp.status \notin 200..299 THEN "ProviderError"
    ELSE IF ~OpParses(name, resp.body) THEN "MalformedResponse"
    ELSE IF ~OpUsable(name, resp.body) THEN "EmptyResponse"
    ELSE "Success"

\* C18: an operation whose request met an adapter error of any kind
\* (NetworkFailure, RateLimited, TransientUnavailable, ProviderError,
\* EmptyResponse, MalformedResponse) returns an error, never a value.
\* Violated: TranscribeAudio drops the error of json.Unmarshal and returns
\* the empty transcript of a malformed or empty body with a nil error.
C18_ErrorKindsSurfaced ==
    (op.pc = "done" /\ op.requests # <<>>
        /\ OpKindExpected(op.name, op.got) # "Success")
    => ~op.ret.err.nil

C19_FailureLeavesDocument ==
    [][(/\ ui.pending # "none" /\ ui'.pending = "none"
        /\ HasPrefix(calls[1].result, ErrorMarker))
       => (ui'.doc = ui.doc /\ ui'.from = ui.from /\ ui'.to = ui.to)]_vars

\* processSelection got the failure string of App.callAI and the selected
\* text is still there
C19_Witness ==
    /\ ui.pending = "none" /\ ui.cmd = "processSelection"
    /\ HasPrefix(ui.last, ErrorMarker \o " All AI providers failed.")
    /\ ui.from # ui.to
    /\ ui.doc = IdleEditor.doc

----------------------------------------------------------------------------
(* Note storage *)

\* A step that is a call of the method name on the note storage
NoteStep(name) == db'.n = db.n + 1 /\ db'.last.name = name

\* C21: after any sequence of SaveNote, SetNoteIcon, SetNoteBackground,
\* ToggleNoteFavorite and DeleteNote calls the table holds at most one
\* note per id; SaveNote(id, title, content) creates the note when there
\* is none with that id and otherwise replaces its title, content and
\* update timestamp; LoadNote(id) right after it returns that title and
\* that content, and any LoadNote returns the stored note or an error
\* when there is none.
C21_OneNotePerIdUpsert ==
    /\ [](\A r1, r2 \in db.rows : r1.id = r2.id => r1 = r2)
    /\ [](db.last.name = "SaveNote" =>
            \E r \in db.rows : /\ r.id = db.last.id
                               /\ r.title = db.last.title
                               /\ r.content = db.last.content
                               /\ r.updated_at = db.n)
    /\ [](db.last.name = "LoadNote" =>
            IF Where(db.rows, db.last.id) = {} THEN ~db.err.nil /\ db.note = ZeroNote
            ELSE db.err.nil /\ db.note \in Where(db.rows, db.last.id))
    /\ [][NoteStep("SaveNote") =>
            Cardinality(db'.rows) = Cardinality(db.rows)
               + (IF Where(db.rows, db'.last.id) = {} THEN 1 ELSE 0)]_vars
    /\ [][db.last.name = "SaveNote" /\ NoteStep("LoadNote") /\ db'.last.id = db.last.id =>
            /\ db'.err.nil
            /\ db'.note.title = db.last.title
            /\ db'.note.content = db.last.content]_vars

\* A note was created, saved again with another title, and loaded
C21_Witness ==
    /\ db.last.name = "LoadNote"
    /\ db.err.nil
    /\ db.note.title = "Plan"
    /\ db.note.content = "<p>x</p>"
    /\ db.note.updated_at = 2
    /\ Cardinality(db.rows) = 1

\* The rows of the notes other than id
Others(t, id) == t \ Where(t, id)

\* C24: SaveNote on an existing note leaves its icon, background and
\* favorite flag as they were and every other note unchanged;
\* SetNoteIcon, SetNoteBackground and ToggleNoteFavorite change only
\* their own column of the addressed note, leave every other note
\* unchanged, and change nothing and return no error when there is no
\* note with that id.
C24_OnlyOwnColumnsChange ==
    [][LET id == db'.last.id
           v == db'.last.value
           old == Where(db.rows, id)
           new == Where(db'.rows, id)
       IN
       /\ NoteStep("SaveNote") /\ old # {} =>
             /\ Others(db'.rows, id) = Others(db.rows, id)
             /\ \A r \in new : \E q \in old :
                    /\ r.icon = q.icon
                    /\ r.background_image = q.background_image
                    /\ r.is_favorite = q.is_favorite
       /\ NoteStep("SetNoteIcon") =>
             /\ Others(db'.rows, id) = Others(db.rows, id)
             /\ new = {[q EXCEPT !.icon = v] : q \in old}
             /\ db'.err.nil
       /\ NoteStep("SetNoteBackground") =>
             /\ Others(db'.rows, id) = Others(db.rows, id)
             /\ new = {[q EXCEPT !.background_image = v] : q \in old}
             /\ db'.err.nil
       /\ NoteStep("ToggleNoteFavorite") =>
             /\ Others(db'.rows, id) = Others(db.rows, id)
             /\ new = {[q EXCEPT !.is_favorite = 1 - @] : q \in old}
             /\ db'.err.nil
       /\ (\E name \in {"SetNoteIcon", "SetNoteBackground", "ToggleNoteFavorite"} :
              NoteStep(name)) /\ old = {} => db'.rows = db.rows /\ db'.err.nil
      ]_vars

\* A note that had got an icon and the favorite flag was saved again
C24_Witness ==
    /\ db.last.name = "SaveNote"
    /\ db.n = 4
    /\ \E r \in db.rows : /\ r.id = db.last.id
                           /\ r.icon = "star"
                           /\ r.is_favorite = 1
                           /\ r.title = "Plan"
                           /\ r.updated_at = 4

----------------------------------------------------------------------------
(* The page *)

\* C22: a deleted note stays deleted: once DeleteNote(id) called from the
\* sidebar has completed, no note with that id is in the table again
\* (New Page makes ids that no note had before), whatever timeout of the
\* editor is pending and whatever is edited in the editor still open.
\* Violated: handleDeleteNote leaves the editor of the note open and its
\* timeout pending, and the SaveNote they call inserts the note anew.
C22_DeletedStaysDeleted ==
    \A id \in page.deleted : Where(db.rows, id) = {}

\* The edits editor e has had (none before it is mounted)
EditsOf(e) == IF e \in DOMAIN page.edits THEN page.edits[e] ELSE 0

\* The SaveNote calls timeouts of editor e made once e had had all its edits
SavesAfterEdits(e) ==
    {i \in DOMAIN page.log : page.log[i].ed = e /\ page.log[i].seen = EditsOf(e)}

\* Editor e's k-th edit was its last and a timeout has called SaveNote
\* with what that edit passed
LastEditSaved(e, k) ==
    \E i \in SavesAfterEdits(e) : page.log[i].n = k /\ page.log[i].args = page.passed[e]

\* C23: in each editor at most one timeout is pending at any time, and it
\* is the one the last edit set, holding what that edit passed (every
\* edit cancels the pending one); after the last edit at most one
\* SaveNote call is made and it has the note id, title and content the
\* last edit passed; no SaveNote call has an empty note id; and once the
\* edits stop that one call is eventually made.
C23_DebouncedSave ==
    /\ [](\A e \in DOMAIN page.edits :
            /\ Cardinality({x \in page.timers : x.ed = e}) <= 1
            /\ \A x \in page.timers :
                  x.ed = e => x.n = page.edits[e] /\ x.args = page.passed[e]
            /\ Cardinality(SavesAfterEdits(e)) <= 1
            /\ \A i \in SavesAfterEdits(e) : page.log[i].args = page.passed[e])
    /\ [](/\ \A i \in DOMAIN page.log : page.log[i].args.id # ""
          /\ db.last.name = "SaveNote" => db.last.id # "")
    /\ \A e \in 1..Cardinality(NoteIds) : \A k \in 1..MaxEdits :
          (EditsOf(e) = k) ~> (EditsOf(e) > k \/ LastEditSaved(e, k))

\* An editor had three edits, of the title and of the document, and the
\* only SaveNote call of its timeouts is the one of the last edit
C23_Witness ==
    /\ Mounted(page) = 1
    /\ page.edits[1] = 3
    /\ page.title = "Plan"
    /\ page.timers = {}
    /\ Len(page.log) = 1
    /\ LastEditSaved(1, 3)
    /\ \E r \in db.rows : r.id = "1" /\ r.title = page.title /\ r.content = page.html

----------------------------------------------------------------------------
(* persist and resolve *)

\* C25: when persist(provider, c) has succeeded and the provider's
\* environment variable is unset, resolve(provider) returns c with its
\* surrounding whitespace trimmed (nothing when c is empty or blank); the
\* persist leaves what resolve returns for the other provider as it was;
\* and with the environment variable set it leaves what resolve returns
\* for the provider itself as it was.
\* Violated: os.WriteFile keeps the permissions of a key file that is
\* already there, so a persist into a file its owner may write and not
\* read succeeds and resolve still cannot read the file.
C25_PersistThenResolve ==
    [][persists' = persists + 1 =>
         \E p \in KeyedProviders :
            /\ lastPersist'[p].done
            /\ \A q \in KeyedProviders \ {p} :
                  lastPersist'[q] = lastPersist[q] /\ GetAPIKey(q)' = GetAPIKey(q)
            /\ env[p] # "" => GetAPIKey(p)' = GetAPIKey(p)
            /\ env[p] = "" /\ lastPersist'[p].ok =>
                  GetAPIKey(p)' = TrimSpace(lastPersist'[p].cred)
      ]_vars

----------------------------------------------------------------------------
(* The dispatcher's result *)

\* C26: the string a dispatch call returns is never empty: it is the
\* non-empty text of a provider that succeeded, or it starts with the
\* failure marker.
C26_ResultNeverEmpty ==
    \A c \in CallIds :
        LET me == calls[c] IN
        me.pc = "done" =>
           /\ me.result # ""
           /\ \/ \E p \in Providers : IsSuccess(me.ret[p]) /\ me.result = me.ret[p].text
              \/ HasPrefix(me.result, ErrorMarker)

\* The last provider answered with an empty text and the call returned
\* the marked failure
C26_Witness ==
    \E c \in CallIds :
        LET me == calls[c] IN
        /\ me.pc = "done"
        /\ me.got[Ollama] = Response(200, Body("response", ""))
        /\ me.got[Gemini] = Response(200, Body("candidates", ""))
        /\ me.result = "Error: All AI providers failed. no response from Ollama"

\* The two calls got the same response from every provider both of them
\* have a response of
SameResponses(a, b) ==
    \A p \in Providers :
        a.got[p] # NoResponse /\ b.got[p] # NoResponse => a.got[p] = b.got[p]

\* C27: ai.CallAI and App.callAI are equivalent: on the same prompt, with
\* the credential configuration held fixed and the same response of each
\* provider, they return the same string and send the same sequence of
\* requests to the providers.
C27_SameResultSameRequests ==
    LET a == calls[1]
        b == calls[2] IN
    (/\ a.pc = "done" /\ a.impl = "ai"
     /\ b.pc = "done" /\ b.impl = "app"
     /\ a.prompt = b.prompt
     /\ SameResponses(a, b))
        => a.result = b.result /\ a.requests = b.requests

\* Both returned the marked failure after a request to each provider, the
\* Hugging Face key coming from its file
C27_Witness ==
    LET a == calls[1]
        b == calls[2] IN
    /\ a.pc = "done" /\ a.impl = "ai"
    /\ b.pc = "done" /\ b.impl = "app"
    /\ SameResponses(a, b)
    /\ env[HF] = "" /\ a.hfKey = "file-key"
    /\ Len(a.requests) = 3 /\ a.requests = b.requests
    /\ HasPrefix(b.result, ErrorMarker) /\ a.result = b.result

----------------------------------------------------------------------------
(* The editor's isProcessing *)

\* The requests the editor's commands are awaiting
Awaited(e) ==
    (IF e.pending # "none" THEN 1 ELSE 0) + (IF e.second # "none" THEN 1 ELSE 0)

\* C28: every AI command of the editor (processSelection, generateContent,
\* magicFormat) has set isProcessing when its request is sent and resets
\* it when its request completes, with a text, with an error-marked string
\* or with a thrown error; when the requests of all the commands given
\* have completed isProcessing is false.
C28_IsProcessingReset ==
    /\ [][ui'.commands = ui.commands + 1 =>
            ui'.isProcessing /\ Awaited(ui') = Awaited(ui) + 1]_vars
    /\ [][Awaited(ui') < Awaited(ui) => ~ui'.isProcessing]_vars
    /\ [](Awaited(ui) = 0 => ~ui.isProcessing)

\* Two commands were given and have completed, the last one, magicFormat,
\* by a rejected call (no string was returned to it)
C28_Witness ==
    /\ ui.commands = 2
    /\ Awaited(ui) = 0
    /\ ui.cmd = "magicFormat"
    /\ ui.last = ""
    /\ ~ui.isProcessing

====
